---- MODULE Spec2Model ----
(***************************************************************************)
(* A model of genomepy/functions.py: weighted chromosome selection, the    *)
(* random-region sampler, spliced-sequence extraction and the BED / region *)
(* track reader behind track2fasta.                                        *)
(*                                                                         *)
(* Text (lines, fields, names, bases) is a sequence of one-character       *)
(* strings, so that split, strip, int() and "{}".format() are computed.    *)
(* Real numbers drawn from random.random() are kept on a grid of halves:   *)
(* a draw u is stored as the integer 2*u.                                  *)
(***************************************************************************)
EXTENDS Integers, Sequences, FiniteSets, TLC

VARIABLES
    call,       \* the entry point being executed
    args,       \* its arguments (a record)
    pc,         \* position inside the entry point
    raised,     \* the exception that left the call, "none" while there is none
    returned,   \* Some(value returned), None until the call returns
    \* ---- locals of _weighted_selection / get_random_sequences
    chroms,     \* the chromosomes picked so far / the selected chromosomes
    u,          \* the draws made: 2 * (random.random() * total_weight) of each
    k,          \* index in chroms of the chromosome being sampled
    i,          \* iterations of the retry loop run for that chromosome
    start,      \* locals start, end, count_n of get_random_sequences
    end,
    count_n,
    coords,
    \* ---- locals of track2fasta and of its generators
    track_type,
    pos,        \* number of lines of the track consumed
    fout,       \* Some(contents of fastafile), None while it was never opened
    seqs,       \* records yielded so far when no fastafile is given
    rec         \* Some(locals of the generator at its latest yield), else None

vars == <<call, args, pc, raised, returned, chroms, u, k, i, start, end,
          count_n, coords, track_type, pos, fout, seqs, rec>>

samplerVars == <<chroms, u, k, i, start, end, count_n, coords>>
trackVars == <<track_type, pos, fout, seqs, rec>>

\* An optional value is a sequence of length 0 (None) or 1 (Some(v)); an integer
\* local not yet bound holds Unbound.
None == <<>>

Some(v) == <<v>>

Unbound == 0 - 1

(***************************************************************************)
(* Bounds of the model.                                                    *)
(***************************************************************************)
MaxN == 2          \* n of get_random_sequences and of _weighted_selection
MaxChroms == 2     \* length of the chroms list handed to get_random_sequences
MaxLength == 2     \* window length of get_random_sequences
MaxItems == 2      \* length of the list handed to _weighted_selection
MaxWeight == 2     \* weights handed to _weighted_selection
MaxIntervals == 2  \* intervals handed to get_spliced_seq
MaxCoord == 4      \* interval coordinates handed to get_spliced_seq
MaxLines == 3      \* lines of a multi-line track
MaxExtend == 1     \* extend_up, extend_down

(***************************************************************************)
(* Generic sequence helpers.                                               *)
(***************************************************************************)
Last(s) == s[Len(s)]

Front(s) == SubSeq(s, 1, Len(s) - 1)

Min(a, b) == IF a <= b THEN a ELSE b

Max(a, b) == IF a >= b THEN a ELSE b

Reverse(s) == [j \in 1..Len(s) |-> s[Len(s) + 1 - j]]

RECURSIVE Join(_)
Join(ss) == IF ss = <<>> THEN <<>> ELSE Head(ss) \o Join(Tail(ss))

RECURSIVE SeqsUpTo(_, _)
SeqsUpTo(S, m) ==
    IF m = 0 THEN {<<>>}
    ELSE LET shorter == SeqsUpTo(S, m - 1)
         IN  shorter \cup {Append(s, x) : s \in {t \in shorter : Len(t) = m - 1}, x \in S}

(***************************************************************************)
(* The installed genome (the pyfaidx index the Genome object wraps).       *)
(***************************************************************************)
ChrC == <<"c">>
ChrD == <<"d">>
ChrE == <<"e">>
ChrZ == <<"z">>

GenomeKeys == <<ChrC, ChrD, ChrE>>

GenomeSeq(chrom) ==
    CASE chrom = ChrC -> <<"A", "C", "g", "N", "n", "T", "C", "A">>
      [] chrom = ChrD -> <<"N", "n", "N", "N">>
      [] chrom = ChrE -> <<"G", "T">>

HasChrom(chrom) == \E j \in 1..Len(GenomeKeys) : GenomeKeys[j] = chrom

\* self.faidx.fetch(name, s, e) / self[chrom][s:e], read as the docstring of
\* get_spliced_seq states: 0-based, end-exclusive; the Sequence keeps the
\* requested start and end.
Fetch(name, s, e) ==
    LET g  == GenomeSeq(name)
        lo == Max(s, 0)
        hi == Min(e, Len(g))
    IN  [seq |-> IF hi > lo THEN SubSeq(g, lo + 1, hi) ELSE <<>>, start |-> s, end |-> e]

\* str.upper() on the alphabet of bases
Upper(ch) ==
    CASE ch = "a" -> "A" [] ch = "c" -> "C" [] ch = "g" -> "G"
      [] ch = "t" -> "T" [] ch = "n" -> "N" [] OTHER -> ch

\* seq.upper().count("N")
CountN(seq) == Cardinality({j \in 1..Len(seq) : Upper(seq[j]) = "N"})

\* pyfaidx complement of one base, case kept
Complement(ch) ==
    CASE ch = "A" -> "T" [] ch = "T" -> "A" [] ch = "C" -> "G" [] ch = "G" -> "C"
      [] ch = "a" -> "t" [] ch = "t" -> "a" [] ch = "c" -> "g" [] ch = "g" -> "c"
      [] OTHER -> ch

\* (-chunk).seq : the reverse complement of a chunk
Neg(seq) == [j \in 1..Len(seq) |-> Complement(seq[Len(seq) + 1 - j])]

(***************************************************************************)
(* _weighted_selection(l, n)                                               *)
(***************************************************************************)
\* cuml: the running totals of the weights of l
Cuml(l) ==
    LET RECURSIVE Sum(_)
        Sum(j) == IF j = 0 THEN 0 ELSE Sum(j - 1) + l[j][1]
    IN  [j \in 1..Len(l) |-> Sum(j)]

Items(l) == [j \in 1..Len(l) |-> l[j][2]]

TotalWeight(l) == IF l = <<>> THEN 0 ELSE Last(Cuml(l))

\* bisect.bisect_left(a, x) on doubled values: the first index (0-based) whose
\* entry is >= x
BisectLeft(a, x2) ==
    LET RECURSIVE Go(_, _)
        Go(lo, hi) ==
            IF lo < hi
            THEN LET mid == (lo + hi) \div 2
                 IN  IF 2 * a[mid + 1] < x2 THEN Go(mid + 1, hi) ELSE Go(lo, mid)
            ELSE lo
    IN  Go(0, Len(a))

\* bisect.bisect(a, x) (bisect_right) on doubled values: the binary search of
\* the standard library, returning a 0-based insertion point
Bisect(a, x2) ==
    LET RECURSIVE Go(_, _)
        Go(lo, hi) ==
            IF lo < hi
            THEN LET mid == (lo + hi) \div 2
                 IN  IF x2 < 2 * a[mid + 1] THEN Go(lo, mid) ELSE Go(mid + 1, hi)
            ELSE lo
    IN  Go(0, Len(a))

\* the values random.random() * total_weight can take on the grid of halves
Draws(l) == IF l = <<>> THEN {0} ELSE 0..(2 * TotalWeight(l) - 1)

\* items[bisect.bisect(cuml, u)] is an IndexError when the index is outside items
PickIndex(l, u2) == Bisect(Cuml(l), u2) + 1

PickFails(l, u2) == PickIndex(l, u2) > Len(l)

Pick(l, u2) == Items(l)[PickIndex(l, u2)]

(***************************************************************************)
(* get_random_sequences(n, length, chroms, max_n)                          *)
(***************************************************************************)
retries == 50

\* max_n is a fraction num/den; count_n <= cutoff with cutoff = length * max_n
CutoffOffByOne(cnt, length, max_n) == cnt * max_n[2] <= (length + 1) * max_n[1]

WithinCutoff(cnt, length, max_n) == cnt * max_n[2] <= length * max_n[1]

\* if not chroms: chroms = self.keys()
ChromsOrKeys(cs) == IF cs = <<>> THEN GenomeKeys ELSE cs

Sizes(chrom) == Len(GenomeSeq(chrom))

\* l = [(sizes[x], x) for x in chroms if sizes[x] > length]
Eligible(cs, length) ==
    LET all == ChromsOrKeys(cs)
    IN  SelectSeq([j \in 1..Len(all) |-> <<Sizes(all[j]), all[j]>>],
                  LAMBDA p : p[1] > length)

\* the loop "for i in range(retries)" has run out
LoopStopsEarly(n) == n >= retries - 1

LoopExhausted(n) == n >= retries

\* the chromosomes the weighted selection can return for one draw
PickSet(l) == IF l = <<>> THEN {} ELSE {Pick(l, u2) : u2 \in Draws(l)}

SamplerLocalsUnbound ==
    /\ chroms = <<>>
    /\ u = <<>>
    /\ k = 0
    /\ i = 0
    /\ start = Unbound
    /\ end = Unbound
    /\ count_n = Unbound
    /\ coords = <<>>

TrackLocalsUnbound ==
    /\ track_type = ""
    /\ pos = 0
    /\ fout = None
    /\ seqs = <<>>
    /\ rec = None

SamplerInit ==
    /\ call = "get_random_sequences"
    /\ args \in [n : 0..MaxN,
                 length : 1..MaxLength,
                 chroms : {cs \in SeqsUpTo({ChrC, ChrD, ChrE}, MaxChroms) :
                               \A a, b \in 1..Len(cs) : cs[a] = cs[b] => a = b},
                 max_n : {<<1, 10>>, <<1, 2>>, <<1, 1>>}]
    /\ pc = "call"
    /\ raised = "none"
    /\ returned = None
    /\ SamplerLocalsUnbound
    /\ TrackLocalsUnbound

\* lines 397-406, the selection returning: chroms = _weighted_selection(l, n)
SelectChroms ==
    /\ call = "get_random_sequences"
    /\ pc = "call"
    /\ LET l == Eligible(args.chroms, args.length)
       IN  /\ args.n = 0 \/ l # <<>>
           /\ \E picks \in [1..args.n -> PickSet(l)] : chroms' = picks
    /\ coords' = <<>>
    /\ k' = 1
    /\ pc' = "for"
    /\ UNCHANGED <<call, args, raised, returned, u, i, start, end, count_n>>
    /\ UNCHANGED trackVars

\* lines 397-405, the selection failing: with nothing eligible the first draw
\* indexes an empty list (IndexError)
SelectChromsFails ==
    /\ call = "get_random_sequences"
    /\ pc = "call"
    /\ args.n > 0
    /\ \E u2 \in Draws(Eligible(args.chroms, args.length)) :
           PickFails(Eligible(args.chroms, args.length), u2)
    /\ raised' = "IndexError"
    /\ pc' = "raised"
    /\ UNCHANGED <<call, args, returned>>
    /\ UNCHANGED samplerVars
    /\ UNCHANGED trackVars

\* line 407-408: the next chromosome of "for chrom in chroms"
NextChrom ==
    /\ call = "get_random_sequences"
    /\ pc = "for"
    /\ k <= Len(chroms)
    /\ i' = 0
    /\ pc' = "retry"
    /\ UNCHANGED <<call, args, raised, returned, chroms, u, k, start, end, count_n, coords>>
    /\ UNCHANGED trackVars

\* lines 408-413: one iteration of "for i in range(retries)"
Attempt ==
    /\ call = "get_random_sequences"
    /\ pc = "retry"
    /\ ~LoopExhausted(i)
    /\ \E s \in 0..(Sizes(chroms[k]) - args.length - 1) :
         LET cnt == CountN(Fetch(chroms[k], s, s + args.length).seq)
         IN  /\ start' = s
             /\ end' = s + args.length
             /\ count_n' = cnt
             /\ i' = i + 1
             /\ pc' = IF WithinCutoff(cnt, args.length, args.max_n) \/ LoopExhausted(i + 1)
                      THEN "after" ELSE "retry"
    /\ UNCHANGED <<call, args, raised, returned, chroms, u, k, coords>>
    /\ UNCHANGED trackVars

\* lines 414-415: raise ValueError("Failed to find suitable non-N sequence")
RaiseNoSequence ==
    /\ call = "get_random_sequences"
    /\ pc = "after"
    /\ ~WithinCutoff(count_n, args.length, args.max_n)
    /\ raised' = "ValueError"
    /\ pc' = "raised"
    /\ UNCHANGED <<call, args, returned>>
    /\ UNCHANGED samplerVars
    /\ UNCHANGED trackVars

\* line 417: coords.append([chrom, start, end])
AppendCoords ==
    /\ call = "get_random_sequences"
    /\ pc = "after"
    /\ WithinCutoff(count_n, args.length, args.max_n)
    /\ coords' = Append(coords, <<chroms[k], start, end>>)
    /\ k' = k + 1
    /\ pc' = "for"
    /\ UNCHANGED <<call, args, raised, returned, chroms, u, i, start, end, count_n>>
    /\ UNCHANGED trackVars

\* line 419: return coords
ReturnCoords ==
    /\ call = "get_random_sequences"
    /\ pc = "for"
    /\ k > Len(chroms)
    /\ returned' = Some(coords)
    /\ pc' = "done"
    /\ UNCHANGED <<call, args, raised>>
    /\ UNCHANGED samplerVars
    /\ UNCHANGED trackVars

SamplerNext ==
    \/ SelectChroms
    \/ SelectChromsFails
    \/ NextChrom
    \/ Attempt
    \/ RaiseNoSequence
    \/ AppendCoords
    \/ ReturnCoords

SamplerSpec == SamplerInit /\ [][SamplerNext]_vars

(***************************************************************************)
(* _weighted_selection(l, n) called on its own, one draw of the list       *)
(* comprehension of line 215 per step.                                     *)
(***************************************************************************)
ItemPool == <<ChrC, ChrD, ChrE, ChrZ>>

WeightedLists ==
    {[j \in 1..Len(ws) |-> <<ws[j], ItemPool[j]>>] : ws \in SeqsUpTo(1..MaxWeight, MaxItems)}

SelectInit ==
    /\ call = "_weighted_selection"
    /\ args \in [l : WeightedLists, n : 0..MaxN]
    /\ pc = "select"
    /\ raised = "none"
    /\ returned = None
    /\ SamplerLocalsUnbound
    /\ TrackLocalsUnbound

\* line 215: one element of the comprehension
SelectDraw ==
    /\ call = "_weighted_selection"
    /\ pc = "select"
    /\ Len(chroms) < args.n
    /\ \E u2 \in Draws(args.l) :
         /\ ~PickFails(args.l, u2)
         /\ u' = Append(u, u2)
         /\ chroms' = Append(chroms, Pick(args.l, u2))
    /\ UNCHANGED <<call, args, pc, raised, returned, k, i, start, end, count_n, coords>>
    /\ UNCHANGED trackVars

\* line 215: items[...] with the index outside items
SelectDrawFails ==
    /\ call = "_weighted_selection"
    /\ pc = "select"
    /\ Len(chroms) < args.n
    /\ \E u2 \in Draws(args.l) :
         /\ PickFails(args.l, u2)
         /\ u' = Append(u, u2)
    /\ raised' = "IndexError"
    /\ pc' = "raised"
    /\ UNCHANGED <<call, args, returned, chroms, k, i, start, end, count_n, coords>>
    /\ UNCHANGED trackVars

\* line 215: the comprehension is complete and returned
SelectReturn ==
    /\ call = "_weighted_selection"
    /\ pc = "select"
    /\ Len(chroms) = args.n
    /\ returned' = Some(chroms)
    /\ pc' = "done"
    /\ UNCHANGED <<call, args, raised>>
    /\ UNCHANGED samplerVars
    /\ UNCHANGED trackVars

SelectNext ==
    \/ SelectDraw
    \/ SelectDrawFails
    \/ SelectReturn

SelectSpec == SelectInit /\ [][SelectNext]_vars

(***************************************************************************)
(* Genome.get_spliced_seq(name, intervals, rc)                             *)
(***************************************************************************)
\* line 275: chunks = [self.faidx.fetch(name, s, e) for s,e in intervals]
Chunks(name, intervals) ==
    [j \in 1..Len(intervals) |-> Fetch(name, intervals[j][1], intervals[j][2])]

\* the span taken from the chunks in the order they are stitched
SpanOfStitched(chunks, rc) ==
    LET order == IF rc THEN Reverse(chunks) ELSE chunks
    IN  [start |-> order[1].start, end |-> Last(order).end]

\* lines 276-277: start = chunks[0].start; end = chunks[-1].end, whatever rc is
Span(chunks, rc) == [start |-> chunks[1].start, end |-> Last(chunks).end]

\* the stitching with the [::-1] of line 281 left out
StitchInGivenOrder(chunks, rc) ==
    IF rc
    THEN Join([j \in 1..Len(chunks) |-> Neg(chunks[j].seq)])
    ELSE Join([j \in 1..Len(chunks) |-> chunks[j].seq])

\* lines 280-283
Stitch(chunks, rc) ==
    IF rc
    THEN Join([j \in 1..Len(chunks) |-> Neg(Reverse(chunks)[j].seq)])
    ELSE Join([j \in 1..Len(chunks) |-> chunks[j].seq])

\* chunks[0] of an empty list is an IndexError
SplicedSeqFails(intervals) == intervals = <<>>

\* lines 268-285: Sequence(name=name, seq=seq, start=start, end=end)
GetSplicedSeq(name, intervals, rc) ==
    LET chunks == Chunks(name, intervals)
        span   == Span(chunks, rc)
    IN  [name |-> name, seq |-> Stitch(chunks, rc), start |-> span.start, end |-> span.end]

Intervals == {p \in (0..MaxCoord) \X (0..MaxCoord) : p[1] <= p[2]}

SpliceInit ==
    /\ call = "get_spliced_seq"
    /\ args \in [name : {ChrC, ChrD},
                 intervals : SeqsUpTo(Intervals, MaxIntervals),
                 rc : BOOLEAN]
    /\ pc = "call"
    /\ raised = "none"
    /\ returned = None
    /\ SamplerLocalsUnbound
    /\ TrackLocalsUnbound

SplicedSeqReturns ==
    /\ call = "get_spliced_seq"
    /\ pc = "call"
    /\ ~SplicedSeqFails(args.intervals)
    /\ returned' = Some(GetSplicedSeq(args.name, args.intervals, args.rc))
    /\ pc' = "done"
    /\ UNCHANGED <<call, args, raised>>
    /\ UNCHANGED samplerVars
    /\ UNCHANGED trackVars

SplicedSeqRaises ==
    /\ call = "get_spliced_seq"
    /\ pc = "call"
    /\ SplicedSeqFails(args.intervals)
    /\ raised' = "IndexError"
    /\ pc' = "raised"
    /\ UNCHANGED <<call, args, returned>>
    /\ UNCHANGED samplerVars
    /\ UNCHANGED trackVars

SpliceNext ==
    \/ SplicedSeqReturns
    \/ SplicedSeqRaises

SpliceSpec == SpliceInit /\ [][SpliceNext]_vars

(***************************************************************************)
(* Text: str.strip, str.split, str.startswith, int(), "{}".format(int)     *)
(***************************************************************************)
TAB == "\t"
NL == "\n"

IsSpace(ch) == ch \in {" ", TAB, NL, "\r"}

RECURSIVE LStrip(_)
LStrip(s) == IF s # <<>> /\ IsSpace(Head(s)) THEN LStrip(Tail(s)) ELSE s

RECURSIVE RStrip(_)
RStrip(s) == IF s # <<>> /\ IsSpace(Last(s)) THEN RStrip(Front(s)) ELSE s

\* str.strip()
Strip(s) == RStrip(LStrip(s))

\* str.split(sep) for a one-character separator: never empty, "" gives [""]
RECURSIVE Split(_, _)
Split(s, sep) ==
    IF s = <<>> THEN << <<>> >>
    ELSE LET rest == Split(Tail(s), sep)
         IN  IF Head(s) = sep
             THEN << <<>> >> \o rest
             ELSE << <<Head(s)>> \o Head(rest) >> \o Tail(rest)

\* str.startswith(prefix)
StartsWith(s, prefix) == Len(s) >= Len(prefix) /\ SubSeq(s, 1, Len(prefix)) = prefix

DigitChars == <<"0", "1", "2", "3", "4", "5", "6", "7", "8", "9">>

IsDigit(ch) == \E d \in 1..10 : DigitChars[d] = ch

DigitValue(ch) == (CHOOSE d \in 1..10 : DigitChars[d] = ch) - 1

\* the digits of an int() argument once blanks and a sign are taken off
Unsigned(tok) ==
    LET t == Strip(tok)
    IN  IF t # <<>> /\ Head(t) \in {"+", "-"} THEN Tail(t) ELSE t

\* int(tok) succeeds (otherwise it raises ValueError)
IsInt(tok) ==
    LET d == Unsigned(tok)
    IN  d # <<>> /\ \A j \in 1..Len(d) : IsDigit(d[j])

RECURSIVE Magnitude(_)
Magnitude(d) == IF d = <<>> THEN 0 ELSE 10 * Magnitude(Front(d)) + DigitValue(Last(d))

\* int(tok)
IntOf(tok) ==
    LET t == Strip(tok)
        m == Magnitude(Unsigned(tok))
    IN  IF Head(t) = "-" THEN 0 - m ELSE m

RECURSIVE NatStr(_)
NatStr(m) == IF m < 10 THEN <<DigitChars[m + 1]>>
             ELSE NatStr(m \div 10) \o <<DigitChars[(m % 10) + 1]>>

\* "{}".format(m) for an int m
IntStr(m) == IF m < 0 THEN <<"-">> \o NatStr(0 - m) ELSE NatStr(m)

(***************************************************************************)
(* get_track_type(track)                                                   *)
(***************************************************************************)
\* region_p = re.compile(r'^(.+):(\d+)-(\d+)$') matches text: the part after
\* the last ":" is digits "-" digits and something stands before that ":"
IsRegion(text) ==
    LET parts  == Split(text, ":")
        cs == Split(Last(parts), "-")
    IN  /\ Len(parts) >= 2
        /\ Len(parts) > 2 \/ parts[1] # <<>>
        /\ Len(cs) = 2
        /\ \A j \in 1..2 : cs[j] # <<>> /\ \A d \in 1..Len(cs[j]) : IsDigit(cs[j][d])

\* lines 190-200 for a track that is a file of the given lines
TrackTypeOfFile(lines) ==
    IF lines # <<>> /\ IsRegion(Strip(lines[1])) THEN "interval" ELSE "bed"

\* lines 192-196 for a track that is a list: track[0] of an empty list is an
\* IndexError, and a list that is no region list reaches open(track), a TypeError
TrackTypeOfListError(elems) ==
    IF elems = <<>> THEN "IndexError"
    ELSE IF IsRegion(elems[1]) THEN "none" ELSE "TypeError"

(***************************************************************************)
(* Genome._bed_to_seqs: one line of the track                              *)
(***************************************************************************)
TrackWord == <<"t", "r", "a", "c", "k">>

\* line 297: vals = line.strip().split("\t")
Vals(line) == Split(Strip(line), TAB)

\* lines 298-301: the exception of int(vals[1]), int(vals[2]), or "none"
CoordError(vals) ==
    IF Len(vals) < 2 THEN "IndexError"
    ELSE IF ~IsInt(vals[2]) THEN "ValueError"
    ELSE IF Len(vals) < 3 THEN "IndexError"
    ELSE IF ~IsInt(vals[3]) THEN "ValueError"
    ELSE "none"

\* a reader that passes over the lines it cannot parse
IsSkippedOrMalformed(line) ==
    \/ StartsWith(line, <<"#">>)
    \/ StartsWith(line, TrackWord)
    \/ CoordError(Vals(line)) = "ValueError"

\* line 294
IsSkipped(line) == StartsWith(line, <<"#">>) \/ StartsWith(line, TrackWord)

\* lines 303-308
IsReverse(vals, stranded) == stranded /\ Len(vals) >= 6 /\ vals[6] = <<"-">>

\* lines 317-318: field.split(",")[:-1]
BlockTokens(field) == Front(Split(field, ","))

\* lines 317-318: int(x) of a block token that is no integer
BlockError(vals) ==
    IF /\ Len(vals) = 12
       /\ \/ \E j \in 1..Len(BlockTokens(vals[12])) : ~IsInt(BlockTokens(vals[12])[j])
          \/ \E j \in 1..Len(BlockTokens(vals[11])) : ~IsInt(BlockTokens(vals[11])[j])
    THEN "ValueError"
    ELSE "none"

\* lines 310-320: starts and ends before the half-open fix
Decoded(vals) ==
    IF Len(vals) = 12
    THEN LET offs   == BlockTokens(vals[12])
             sizes  == BlockTokens(vals[11])
             starts == [j \in 1..Len(offs) |-> IntOf(vals[2]) + IntOf(offs[j])]
         IN  [starts |-> starts,
              ends   |-> [j \in 1..Min(Len(starts), Len(sizes)) |->
                              starts[j] + IntOf(sizes[j])]]
    ELSE [starts |-> <<IntOf(vals[2])>>, ends |-> <<IntOf(vals[3])>>]

\* lines 321-324
RecordName(vals) ==
    IF Len(vals) >= 4 THEN vals[4]
    ELSE vals[1] \o <<":">> \o IntStr(IntOf(vals[2])) \o <<"-">> \o IntStr(IntOf(vals[3]))

\* a fix that treats both strands alike
HalfOpenFixBothStrands(se, rc) ==
    [starts |-> se.starts, ends |-> [j \in 1..Len(se.ends) |-> se.ends[j] - 1]]

\* lines 326-329
HalfOpenFix(se, rc) ==
    IF rc
    THEN [starts |-> [j \in 1..Len(se.starts) |-> se.starts[j] + 1], ends |-> se.ends]
    ELSE [starts |-> se.starts, ends |-> [j \in 1..Len(se.ends) |-> se.ends[j] - 1]]

\* lines 332-341: ends[-1] or starts[0] of an empty list is an IndexError
ExtendError(se, rc, extend_up, extend_down) ==
    IF \/ extend_up # 0 /\ (IF rc THEN se.ends = <<>> ELSE se.starts = <<>>)
       \/ extend_down # 0 /\ (IF rc THEN se.starts = <<>> ELSE se.ends = <<>>)
    THEN "IndexError"
    ELSE "none"

\* an extension that does not look at the strand
ExtendForwardOnly(se, rc, extend_up, extend_down) ==
    [starts |-> IF extend_up # 0
                THEN [se.starts EXCEPT ![1] = @ - extend_up] ELSE se.starts,
     ends   |-> IF extend_down # 0
                THEN [se.ends EXCEPT ![Len(se.ends)] = @ + extend_down] ELSE se.ends]

\* lines 332-341
Extend(se, rc, extend_up, extend_down) ==
    LET up == [starts |-> IF extend_up # 0 /\ ~rc
                          THEN [se.starts EXCEPT ![1] = @ - extend_up] ELSE se.starts,
               ends   |-> IF extend_up # 0 /\ rc
                          THEN [se.ends EXCEPT ![Len(se.ends)] = @ + extend_up] ELSE se.ends]
    IN  [starts |-> IF extend_down # 0 /\ rc
                    THEN [up.starts EXCEPT ![1] = @ - extend_down] ELSE up.starts,
         ends   |-> IF extend_down # 0 /\ ~rc
                    THEN [up.ends EXCEPT ![Len(up.ends)] = @ + extend_down] ELSE up.ends]

\* line 343: intervals = zip(starts, ends)
Zip(se) == [j \in 1..Min(Len(se.starts), Len(se.ends)) |-> <<se.starts[j], se.ends[j]>>]

\* line 344: the exception of get_spliced_seq, or "none"; a chromosome the index
\* does not hold fails at the first fetch
SplicedSeqError(chrom, intervals) ==
    IF SplicedSeqFails(intervals) THEN "IndexError"
    ELSE IF ~HasChrom(chrom) THEN "FetchError"
    ELSE "none"

\* lines 297-345 for one line that is not skipped: the exception raised, or the
\* locals at the yield
BedRecord(line, stranded, extend_up, extend_down) ==
    LET vals      == Vals(line)
        rc        == IsReverse(vals, stranded)
        decoded   == Decoded(vals)
        fixed     == HalfOpenFix(decoded, rc)
        intervals == Zip(Extend(fixed, rc, extend_up, extend_down))
        failure   == [err |-> "none", vals |-> vals, name |-> <<>>, chrom |-> <<>>,
                      rc |-> FALSE,
                      decoded |-> [starts |-> <<>>, ends |-> <<>>],
                      intervals |-> <<>>, seq |-> <<>>]
    IN  IF CoordError(vals) # "none" THEN [failure EXCEPT !.err = CoordError(vals)]
        ELSE IF BlockError(vals) # "none" THEN [failure EXCEPT !.err = BlockError(vals)]
        ELSE IF ExtendError(fixed, rc, extend_up, extend_down) # "none"
             THEN [failure EXCEPT !.err = ExtendError(fixed, rc, extend_up, extend_down)]
        ELSE IF SplicedSeqError(vals[1], intervals) # "none"
             THEN [failure EXCEPT !.err = SplicedSeqError(vals[1], intervals)]
        ELSE [err |-> "none", vals |-> vals, name |-> RecordName(vals), chrom |-> vals[1],
              rc |-> rc,
              decoded |-> decoded, intervals |-> intervals,
              seq |-> GetSplicedSeq(vals[1], intervals, rc).seq]

(***************************************************************************)
(* Genome._region_to_seqs: one region string                               *)
(***************************************************************************)
\* lines 354-355 (366-367): the two unpackings and the int() calls
RegionError(name) ==
    LET parts == Split(name, ":")
    IN  IF Len(parts) # 2 THEN "ValueError"
        ELSE LET cs == Split(parts[2], "-")
             IN  IF \E j \in 1..Len(cs) : ~IsInt(cs[j]) THEN "ValueError"
                 ELSE IF Len(cs) # 2 THEN "ValueError"
                 ELSE IF ~HasChrom(parts[1]) THEN "FetchError"
                 ELSE "none"

\* lines 354-359 (365-371) for one region string
RegionRecord(name, extend_up, extend_down) ==
    IF RegionError(name) # "none"
    THEN [err |-> RegionError(name), vals |-> <<name>>, name |-> <<>>, chrom |-> <<>>,
          rc |-> FALSE,
          decoded |-> [starts |-> <<>>, ends |-> <<>>], intervals |-> <<>>, seq |-> <<>>]
    ELSE LET parts  == Split(name, ":")
             cs == Split(parts[2], "-")
             s      == IntOf(cs[1]) - extend_up
             e      == IntOf(cs[2]) + extend_down
         IN  [err |-> "none", vals |-> <<name>>, name |-> name, chrom |-> parts[1],
              rc |-> FALSE,
              decoded |-> [starts |-> <<IntOf(cs[1])>>, ends |-> <<IntOf(cs[2])>>],
              intervals |-> << <<s, e>> >>,
              seq |-> Fetch(parts[1], s, e).seq]

(***************************************************************************)
(* Genome.track2fasta(track, fastafile, stranded, extend_up, extend_down)  *)
(*                                                                         *)
(* args.track holds the text of each line (or list element); read from a   *)
(* file, every line ends with a newline.                                   *)
(***************************************************************************)
RECURSIVE JoinTab(_)
JoinTab(fields) ==
    IF Len(fields) = 1 THEN fields[1]
    ELSE fields[1] \o <<TAB>> \o JoinTab(Tail(fields))

FileLine(text) == text \o <<NL>>

\* lines of the multi-line BED tracks
StreamTexts ==
    { <<"#", "c">>,
      TrackWord \o <<" ", "x">>,
      JoinTab(<<ChrC, <<"2">>, <<"5">>>>),
      JoinTab(<<ChrC, <<"3">>, <<"6">>, <<"g">>, <<"0">>, <<"-">>>>),
      JoinTab(<<ChrC, <<"x">>, <<"5">>>>),
      JoinTab(<<ChrD, <<"1">>, <<"3", "x">>, <<"b">>>>),
      JoinTab(<<ChrC, <<"2">>>>) }

\* blockSizes and blockStarts of the BED12 lines
BlockFields ==
    { << <<"1", ",", "2", ",">>, <<"0", ",", "2", ",">> >>,
      << <<"1", ",", "2">>,      <<"0", ",", "2">> >>,
      << <<"2", ",">>,           <<"0", ",">> >>,
      << <<"1", ",", "2", ",">>, <<"0", ",", "2">> >>,
      << <<"2">>,                <<"0">> >>,
      << <<"1", ",", "x", ",">>, <<"0", ",", "2", ",">> >> }

\* single BED3, BED4, BED6 and BED12 lines
RecordTexts ==
    LET Coords == {<<"2">>, <<"3">>} \X {<<"5">>, <<"6">>}
    IN  {JoinTab(<<ChrC, c[1], c[2]>>) : c \in Coords}
        \cup {JoinTab(<<ChrC, c[1], c[2], <<"g">>>>) : c \in Coords}
        \cup {JoinTab(<<ChrC, c[1], c[2], <<"g">>, <<"0">>, sd>>) :
                 c \in Coords, sd \in {<<"+">>, <<"-">>}}
        \cup {JoinTab(<<ChrC, st, <<"6">>, <<"g">>, <<"0">>, sd, st, <<"6">>, <<"0">>,
                        <<"2">>, b[1], b[2]>>) :
                 st \in {<<"2">>, <<"3">>}, sd \in {<<"+">>, <<"-">>}, b \in BlockFields}
        \cup {JoinTab(<<ChrZ, <<"2">>, <<"5">>>>)}

\* region strings
RegionTexts ==
    { <<"c", ":", "2", "-", "5">>,
      <<"d", ":", "1", "-", "3">>,
      <<"c", ":", "x", "-", "5">> }

TrackArgs ==
    [track : SeqsUpTo(StreamTexts, MaxLines), asList : {FALSE}, fastafile : BOOLEAN,
     stranded : BOOLEAN, extend_up : {0}, extend_down : {0}]
    \cup
    [track : {<<t>> : t \in RecordTexts}, asList : {FALSE}, fastafile : BOOLEAN,
     stranded : BOOLEAN, extend_up : 0..MaxExtend, extend_down : 0..MaxExtend]
    \cup
    [track : SeqsUpTo(RegionTexts, MaxLines), asList : BOOLEAN, fastafile : BOOLEAN,
     stranded : {FALSE}, extend_up : 0..MaxExtend, extend_down : 0..MaxExtend]

TrackInit ==
    /\ call = "track2fasta"
    /\ args \in TrackArgs
    /\ pc = "call"
    /\ raised = "none"
    /\ returned = None
    /\ SamplerLocalsUnbound
    /\ TrackLocalsUnbound

\* the line the generator reads next
NextLine == IF args.asList THEN args.track[pos + 1] ELSE FileLine(args.track[pos + 1])

\* lines 389-393: the consumer of the generator takes one record
Emit(r) ==
    /\ rec' = Some(r)
    /\ IF args.fastafile
       THEN fout' = Some(Append(fout[1], [name |-> r.name, seq |-> r.seq])) /\ seqs' = seqs
       ELSE seqs' = Append(seqs, [name |-> r.name, seq |-> r.seq]) /\ fout' = fout

\* lines 378-389: the track type is found, the generator made, fastafile opened
OpenTrack ==
    /\ call = "track2fasta"
    /\ pc = "call"
    /\ args.asList => TrackTypeOfListError(args.track) = "none"
    /\ track_type' = IF args.asList THEN "interval"
                     ELSE TrackTypeOfFile([j \in 1..Len(args.track) |-> FileLine(args.track[j])])
    /\ fout' = IF args.fastafile THEN Some(<<>>) ELSE None
    /\ pc' = "iter"
    /\ UNCHANGED <<call, args, raised, returned, pos, seqs, rec>>
    /\ UNCHANGED samplerVars

\* line 378: get_track_type raises
OpenTrackRaises ==
    /\ call = "track2fasta"
    /\ pc = "call"
    /\ args.asList
    /\ TrackTypeOfListError(args.track) # "none"
    /\ raised' = TrackTypeOfListError(args.track)
    /\ pc' = "raised"
    /\ UNCHANGED <<call, args, returned>>
    /\ UNCHANGED samplerVars
    /\ UNCHANGED trackVars

\* lines 294-295: a comment or track line
SkipLine ==
    /\ call = "track2fasta"
    /\ pc = "iter"
    /\ track_type = "bed"
    /\ pos < Len(args.track)
    /\ IsSkipped(NextLine)
    /\ pos' = pos + 1
    /\ UNCHANGED <<call, args, pc, raised, returned, track_type, fout, seqs, rec>>
    /\ UNCHANGED samplerVars

\* lines 297-345 and 390-393: a BED record is resolved and handed on
YieldBed ==
    /\ call = "track2fasta"
    /\ pc = "iter"
    /\ track_type = "bed"
    /\ pos < Len(args.track)
    /\ ~IsSkipped(NextLine)
    /\ LET r == BedRecord(NextLine, args.stranded, args.extend_up, args.extend_down)
       IN  r.err = "none" /\ Emit(r)
    /\ pos' = pos + 1
    /\ UNCHANGED <<call, args, pc, raised, returned, track_type>>
    /\ UNCHANGED samplerVars

\* lines 297-345: the record raises and the exception leaves track2fasta
BedRaises ==
    /\ call = "track2fasta"
    /\ pc = "iter"
    /\ track_type = "bed"
    /\ pos < Len(args.track)
    /\ ~IsSkipped(NextLine)
    /\ LET r == BedRecord(NextLine, args.stranded, args.extend_up, args.extend_down)
       IN  r.err # "none" /\ raised' = r.err
    /\ pc' = "raised"
    /\ UNCHANGED <<call, args, returned>>
    /\ UNCHANGED samplerVars
    /\ UNCHANGED trackVars

\* the name of a region: the list element, or the stripped line of the file
RegionName == IF args.asList THEN NextLine ELSE Strip(NextLine)

\* lines 353-359 / 364-371 and 390-393: a region is resolved and handed on
YieldRegion ==
    /\ call = "track2fasta"
    /\ pc = "iter"
    /\ track_type = "interval"
    /\ pos < Len(args.track)
    /\ LET r == RegionRecord(RegionName, args.extend_up, args.extend_down)
       IN  r.err = "none" /\ Emit(r)
    /\ pos' = pos + 1
    /\ UNCHANGED <<call, args, pc, raised, returned, track_type>>
    /\ UNCHANGED samplerVars

\* lines 353-359 / 364-371: the region raises
RegionRaises ==
    /\ call = "track2fasta"
    /\ pc = "iter"
    /\ track_type = "interval"
    /\ pos < Len(args.track)
    /\ LET r == RegionRecord(RegionName, args.extend_up, args.extend_down)
       IN  r.err # "none" /\ raised' = r.err
    /\ pc' = "raised"
    /\ UNCHANGED <<call, args, returned>>
    /\ UNCHANGED samplerVars
    /\ UNCHANGED trackVars

\* lines 388-393: the generator is exhausted; with a fastafile None is returned
TrackDone ==
    /\ call = "track2fasta"
    /\ pc = "iter"
    /\ pos = Len(args.track)
    /\ returned' = IF args.fastafile THEN None ELSE Some(seqs)
    /\ pc' = "done"
    /\ UNCHANGED <<call, args, raised>>
    /\ UNCHANGED samplerVars
    /\ UNCHANGED trackVars

TrackNext ==
    \/ OpenTrack
    \/ OpenTrackRaises
    \/ SkipLine
    \/ YieldBed
    \/ BedRaises
    \/ YieldRegion
    \/ RegionRaises
    \/ TrackDone

TrackSpec == TrackInit /\ [][TrackNext]_vars

(***************************************************************************)
(* Properties of the random-region sampler (SamplerSpec)                   *)
(***************************************************************************)
\* the ambiguous bases (N or n) of chrom over [s, e)
Ambiguous(chrom, s, e) ==
    Cardinality({p \in (s + 1)..e : GenomeSeq(chrom)[p] \in {"N", "n"}})

\* count <= max_n * length, max_n being the fraction args.max_n
InBudget(count) == count * args.max_n[2] <= args.length * args.max_n[1]

\* C1: every window the sampler has accepted, on any draw, and every window it
\* returns lies inside its chromosome, has the requested length and holds at
\* most max_n * length ambiguous bases, counted case-insensitively.
C1_AcceptedWindowsWithinBudget ==
    call = "get_random_sequences" =>
        /\ \A j \in 1..Len(coords) :
             /\ 0 <= coords[j][2]
             /\ coords[j][3] = coords[j][2] + args.length
             /\ coords[j][3] <= Len(GenomeSeq(coords[j][1]))
             /\ InBudget(Ambiguous(coords[j][1], coords[j][2], coords[j][3]))
        /\ returned # None => returned[1] = coords

\* C1 witness: the call returned a window holding an ambiguous base, accepted
\* after at least one rejected attempt.
C1_Witness ==
    /\ call = "get_random_sequences"
    /\ pc = "done"
    /\ returned # None
    /\ i >= 2
    /\ \E j \in 1..Len(returned[1]) :
         Ambiguous(returned[1][j][1], returned[1][j][2], returned[1][j][3]) >= 1

\* C2: when the retry loop of a selected chromosome ends without an accepted
\* window it has run exactly 50 times, the call then fails with ValueError,
\* nothing is returned (the windows accepted for earlier draws included) and
\* no later draw is attempted.
C2_ExhaustedRetriesAbortTheCall ==
    call = "get_random_sequences" =>
        /\ (pc = "after" /\ ~InBudget(count_n)) => (i = 50 /\ ENABLED RaiseNoSequence)
        /\ raised = "ValueError" =>
             /\ i = 50
             /\ ~InBudget(count_n)
             /\ returned = None
             /\ k <= Len(chroms)
             /\ Len(coords) = k - 1
             /\ ~ENABLED SamplerNext
        /\ pc = "done" => (raised = "none" /\ Len(returned[1]) = args.n)

\* C2 witness: the call failed on its second draw, after a window was accepted
\* for the first.
C2_Witness ==
    /\ call = "get_random_sequences"
    /\ raised = "ValueError"
    /\ Len(coords) >= 1
    /\ k = 2

\* C3 (as claimed): with no chromosome of the subset longer than the window the
\* call fails, for every n >= 0, before any window start is drawn.
C3_NoSuitableChromosomeAlwaysFails ==
    (/\ call = "get_random_sequences"
     /\ pc # "call"
     /\ \A j \in 1..Len(ChromsOrKeys(args.chroms)) :
            Len(GenomeSeq(ChromsOrKeys(args.chroms)[j])) <= args.length)
    => (raised # "none" /\ start = Unbound /\ i = 0)

(***************************************************************************)
(* Properties of _weighted_selection (SelectSpec)                          *)
(***************************************************************************)
\* the 1-based indices of l whose cumulative weight is above / at least u2 / 2
IndicesAbove(l, u2) == {m \in 1..Len(l) : 2 * Cuml(l)[m] > u2}

IndicesAtLeast(l, u2) == {m \in 1..Len(l) : 2 * Cuml(l)[m] >= u2}

Least(S) == CHOOSE m \in S : \A o \in S : m <= o

\* C9 (amended): each draw u in [0, total weight) selects the item at the
\* leftmost index whose cumulative weight is strictly greater than u; that
\* index is always inside the list, so every item selected is one of the list,
\* and exactly n items are returned, in draw order.
C9_SelectsLeftmostCumulativeAbove ==
    (call = "_weighted_selection" /\ args.l # <<>>) =>
        /\ raised = "none"
        /\ Len(u) = Len(chroms)
        /\ \A j \in 1..Len(chroms) :
             /\ IndicesAbove(args.l, u[j]) # {}
             /\ chroms[j] = args.l[Least(IndicesAbove(args.l, u[j]))][2]
        /\ pc = "done" => (returned = Some(chroms) /\ Len(chroms) = args.n)

\* C9 (as claimed): each draw selects the item at the leftmost index whose
\* cumulative weight is >= u.
C9_SelectsLeftmostCumulativeAtLeast ==
    (call = "_weighted_selection" /\ args.l # <<>>) =>
        /\ raised = "none"
        /\ Len(u) = Len(chroms)
        /\ \A j \in 1..Len(chroms) :
             /\ IndicesAtLeast(args.l, u[j]) # {}
             /\ chroms[j] = args.l[Least(IndicesAtLeast(args.l, u[j]))][2]
        /\ pc = "done" => (returned = Some(chroms) /\ Len(chroms) = args.n)

\* C9 witness: two items were returned and one draw fell exactly on a
\* cumulative weight.
C9_Witness ==
    /\ call = "_weighted_selection"
    /\ pc = "done"
    /\ Len(returned[1]) = 2
    /\ \E j \in 1..Len(u) : \E m \in 1..Len(args.l) : u[j] = 2 * Cuml(args.l)[m]

(***************************************************************************)
(* Properties of get_spliced_seq (SpliceSpec)                              *)
(***************************************************************************)
\* the bases of the intervals, concatenated in the order given
RECURSIVE ForwardBases(_, _)
ForwardBases(name, intervals) ==
    IF intervals = <<>> THEN <<>>
    ELSE Fetch(name, Head(intervals)[1], Head(intervals)[2]).seq
             \o ForwardBases(name, Tail(intervals))

\* the reverse complement of a whole sequence
RevComp(seq) == [j \in 1..Len(seq) |-> Complement(Reverse(seq)[j])]

\* C5: for a non-empty list of intervals, the sequence returned with rc is the
\* reverse complement of the sequence returned without rc for the same
\* intervals, and without rc it is the chunks concatenated in the given order.
C5_ReverseStrandIsRevCompOfForward ==
    (call = "get_spliced_seq" /\ returned # None) =>
        /\ args.intervals # <<>>
        /\ ~args.rc => returned[1].seq = ForwardBases(args.name, args.intervals)
        /\ args.rc =>
             /\ returned[1].seq = RevComp(ForwardBases(args.name, args.intervals))
             /\ returned[1].seq =
                    RevComp(GetSplicedSeq(args.name, args.intervals, FALSE).seq)

\* C5 witness: a reverse-complemented sequence stitched from two chunks with
\* different bases.
C5_Witness ==
    /\ call = "get_spliced_seq"
    /\ returned # None
    /\ args.rc
    /\ Len(args.intervals) = 2
    /\ Len(returned[1].seq) >= 3
    /\ ForwardBases(args.name, <<args.intervals[1]>>) # <<>>
    /\ ForwardBases(args.name, <<args.intervals[2]>>) # <<>>
    /\ ForwardBases(args.name, <<args.intervals[1]>>)
         # ForwardBases(args.name, <<args.intervals[2]>>)

\* C10 (amended): the span reported is the first given interval's start and the
\* last given interval's end, with and without reverse-complement.
C10_SpanIsFirstStartLastEnd ==
    (call = "get_spliced_seq" /\ returned # None) =>
        /\ returned[1].start = args.intervals[1][1]
        /\ returned[1].end = args.intervals[Len(args.intervals)][2]

\* C10 (as claimed): with reverse-complement the span comes from the reversed
\* chunk order: its start from the last given interval, its end from the first.
C10_SpanFollowsStitchingOrder ==
    (call = "get_spliced_seq" /\ returned # None) =>
        IF args.rc
        THEN /\ returned[1].start = args.intervals[Len(args.intervals)][1]
             /\ returned[1].end = args.intervals[1][2]
        ELSE /\ returned[1].start = args.intervals[1][1]
             /\ returned[1].end = args.intervals[Len(args.intervals)][2]

\* C10 witness: a reverse-complemented result over two intervals, the second
\* lying after the first.
C10_Witness ==
    /\ call = "get_spliced_seq"
    /\ returned # None
    /\ args.rc
    /\ Len(args.intervals) = 2
    /\ args.intervals[1][2] < args.intervals[2][1]
    /\ returned[1].start < returned[1].end

(***************************************************************************)
(* Properties of track2fasta (TrackSpec)                                   *)
(***************************************************************************)
\* the tab-separated fields of line j of the track
Fields(j) == Split(Strip(args.track[j]), TAB)

\* line j is a data record: no comment line and no track header
IsData(j) ==
    /\ ~(args.track[j] # <<>> /\ args.track[j][1] = "#")
    /\ ~(Len(args.track[j]) >= 5 /\ SubSeq(args.track[j], 1, 5) = TrackWord)

\* data record j has a start or end field that is no integer
IsMalformed(j) ==
    /\ IsData(j)
    /\ Len(Fields(j)) >= 3
    /\ ~IsInt(Fields(j)[2]) \/ ~IsInt(Fields(j)[3])

\* the track is a BED source all of whose other fields resolve: every data
\* record has its three leading fields, and fails only if it is malformed
IsBedSource ==
    /\ ~args.asList
    /\ track_type = "bed"
    /\ \A j \in 1..Len(args.track) :
         IsData(j) =>
            /\ Len(Fields(j)) >= 3
            /\ IsMalformed(j) \/
               BedRecord(FileLine(args.track[j]), args.stranded,
                         args.extend_up, args.extend_down).err = "none"

\* the index of the first malformed record, or one past the last line
FirstMalformed ==
    IF \E j \in 1..Len(args.track) : IsMalformed(j)
    THEN Least({j \in 1..Len(args.track) : IsMalformed(j)})
    ELSE Len(args.track) + 1

\* what the data records among the first m lines put into the sink, in order
RECURSIVE Written(_)
Written(m) ==
    IF m = 0 THEN <<>>
    ELSE IF IsData(m)
         THEN LET r == BedRecord(FileLine(args.track[m]), args.stranded,
                                 args.extend_up, args.extend_down)
              IN  Append(Written(m - 1), [name |-> r.name, seq |-> r.seq])
         ELSE Written(m - 1)

YieldedFields == rec[1].vals

\* C6: without extension a BED record is Reverse only when strandedness is
\* requested and field 5 is present and equal to "-"; a Reverse record has every
\* start incremented by 1 and its ends unchanged, a Forward record every end
\* decremented by 1 and its starts unchanged; a Forward single-interval record
\* (s, e) is fetched as (s, e - 1) and yields e - s - 1 bases.
C6_StrandAsymmetricCoordinateFix ==
    (/\ call = "track2fasta"
     /\ track_type = "bed"
     /\ rec # None
     /\ args.extend_up = 0
     /\ args.extend_down = 0) =>
        LET r == rec[1]
            n == Len(r.intervals)
        IN  /\ r.rc = (/\ args.stranded
                       /\ Len(YieldedFields) >= 6
                       /\ YieldedFields[6] = <<"-">>)
            /\ n = Len(r.decoded.ends)
            /\ \A j \in 1..n :
                 IF r.rc
                 THEN r.intervals[j] = <<r.decoded.starts[j] + 1, r.decoded.ends[j]>>
                 ELSE r.intervals[j] = <<r.decoded.starts[j], r.decoded.ends[j] - 1>>
            /\ (~r.rc /\ Len(YieldedFields) # 12) =>
                 LET s == IntOf(YieldedFields[2])
                     e == IntOf(YieldedFields[3])
                 IN  /\ r.intervals = << <<s, e - 1>> >>
                     /\ (0 <= s /\ s < e /\ e <= Len(GenomeSeq(r.chrom))) =>
                            Len(r.seq) = e - s - 1

\* C6 witness: a Reverse record of two blocks was yielded without extension.
C6_Witness ==
    /\ call = "track2fasta"
    /\ track_type = "bed"
    /\ rec # None
    /\ args.extend_up = 0
    /\ args.extend_down = 0
    /\ rec[1].rc
    /\ Len(rec[1].intervals) = 2

\* C6 second witness: a Forward BED3 record (2, 6) yielded 3 bases.
C6_ForwardWitness ==
    /\ call = "track2fasta"
    /\ track_type = "bed"
    /\ rec # None
    /\ args.extend_up = 0
    /\ args.extend_down = 0
    /\ ~rec[1].rc
    /\ Len(YieldedFields) = 3
    /\ rec[1].intervals = << <<2, 5>> >>
    /\ Len(rec[1].seq) = 3

\* C7: the extension moves only the outer boundaries: on a Forward BED record
\* extend_up is subtracted from the first start and extend_down added to the
\* last end, on a Reverse BED record extend_up is added to the last end and
\* extend_down subtracted from the first start; a region string is fetched as
\* (start - extend_up, end + extend_down).
C7_ExtensionIsStrandAware ==
    (call = "track2fasta" /\ rec # None) =>
        LET r    == rec[1]
            n    == Len(r.intervals)
            plus == IF r.rc THEN 1 ELSE 0
        IN  IF track_type = "bed"
            THEN \A j \in 1..n :
                   /\ r.intervals[j][1] =
                        r.decoded.starts[j] + plus
                          - (IF j = 1 THEN (IF r.rc THEN args.extend_down ELSE args.extend_up)
                             ELSE 0)
                   /\ r.intervals[j][2] =
                        r.decoded.ends[j] - (1 - plus)
                          + (IF j = n THEN (IF r.rc THEN args.extend_up ELSE args.extend_down)
                             ELSE 0)
            ELSE LET cs == Split(Split(r.name, ":")[2], "-")
                 IN  r.intervals = << <<IntOf(cs[1]) - args.extend_up,
                                         IntOf(cs[2]) + args.extend_down>> >>

\* C7 witness: a Reverse record of two blocks was yielded with extend_up = 1
\* and extend_down = 0.
C7_Witness ==
    /\ call = "track2fasta"
    /\ track_type = "bed"
    /\ rec # None
    /\ rec[1].rc
    /\ Len(rec[1].intervals) = 2
    /\ args.extend_up = 1
    /\ args.extend_down = 0

\* the tokens of a block list, only an empty last token dropped
BlockList(field) ==
    IF Last(Split(field, ",")) = <<>> THEN Front(Split(field, ",")) ELSE Split(field, ",")

\* C8 (as claimed): a record of exactly 12 fields decodes to one interval per
\* encoded block, in block order, start_i = chromStart + blockStart_i and
\* end_i = start_i + blockSize_i, only the empty token after a trailing comma
\* being dropped; any other record has the single interval (start, end).
C8_OneIntervalPerEncodedBlock ==
    (call = "track2fasta" /\ track_type = "bed" /\ rec # None) =>
        LET f == YieldedFields
        IN  IF Len(f) = 12
            THEN LET offs  == BlockList(f[12])
                     sizes == BlockList(f[11])
                 IN  /\ Len(rec[1].decoded.starts) = Len(offs)
                     /\ Len(rec[1].decoded.ends) = Len(offs)
                     /\ \A j \in 1..Len(offs) :
                          /\ rec[1].decoded.starts[j] = IntOf(f[2]) + IntOf(offs[j])
                          /\ j <= Len(sizes) =>
                               rec[1].decoded.ends[j] =
                                   IntOf(f[2]) + IntOf(offs[j]) + IntOf(sizes[j])
            ELSE rec[1].decoded = [starts |-> <<IntOf(f[2])>>, ends |-> <<IntOf(f[3])>>]

====
